---- MODULE Spec2Model ----
(***************************************************************************)
(* Hierarchical agent workflows: the deterministic router of test.py       *)
(* (MasterOrchestrator), the sequential travel workflow of Workflow-1.py   *)
(* the parallel-then-synthesize workflow of Workflow-3.py and the          *)
(* demographics agent of Workflow-2.py with its coordinator tool, run by a *)
(* Runner over per-session state.                                          *)
(*                                                                         *)
(* Request texts are sequences of one-character strings, so that lower()   *)
(* and the substring test of the router are computed, not assumed.         *)
(***************************************************************************)
EXTENDS Integers, Sequences, FiniteSets, TLC

VARIABLES
    root,        \* the agent the Runner was built with (one per program)
    state,       \* session id -> the session's state mapping (a dict)
    ctx,         \* the InvocationContext of the current (or last) run: the
                 \* session id, the user message and the cancellation signal
    status,      \* agent -> "idle" | "running" | "awaiting" | "done" | "failed"
                 \*          | "cancelled"
    rpc,         \* the router's position in _run_async_impl
    dispatched,  \* the branch of the if / elif / else the router is in
    final_text,  \* the router's local final_text
    events,      \* the Events the caller has received in this run, in order
    emitted,     \* the Events the agents have produced in this run, in order
    history,     \* session id -> the session's history of Events
    seen,        \* agent -> the state its capability was invoked with
    failure,     \* agent -> the agents its failure names
    wrote,       \* the keys written during this run, with their values
    runs,        \* number of runs started
    routed,      \* the <<request text, branch>> pairs of the router's choices,
                 \* in order, kept for the texts that are sent more than once
    fd           \* the call of fetch_demographics of this run: its position,
                 \* its argument, its two fetches and what it returned

vars == <<root, state, ctx, status, rpc, dispatched, final_text, events, emitted, history,
          seen, failure, wrote, runs, routed, fd>>

-----------------------------------------------------------------------------
\* Bounds

\* request texts are concatenations of at most MaxFrags fragments
MaxFrags == 2

\* runs started per behaviour
MaxRuns == 2

-----------------------------------------------------------------------------
\* Text: str.lower and the substring test `sub in s`

UpperCase ==
    << "A", "B", "C", "D", "E", "F", "G", "H", "I", "J", "K", "L", "M",
       "N", "O", "P", "Q", "R", "S", "T", "U", "V", "W", "X", "Y", "Z" >>

LowerCase ==
    << "a", "b", "c", "d", "e", "f", "g", "h", "i", "j", "k", "l", "m",
       "n", "o", "p", "q", "r", "s", "t", "u", "v", "w", "x", "y", "z" >>

UpperLetters == { UpperCase[i] : i \in 1..Len(UpperCase) }

\* upper-case letter -> its lower-case letter
LowerOf ==
    [c \in UpperLetters |->
        LowerCase[CHOOSE i \in 1..Len(UpperCase) : UpperCase[i] = c]]

lower_char(c) == IF c \in UpperLetters THEN LowerOf[c] ELSE c

\* the text used as it was typed
lower_AsTyped(s) == s

lower(s) == IF s = <<>> THEN <<>> ELSE [i \in 1..Len(s) |-> lower_char(s[i])]

\* Python's `sub in s` for strings
Contains(sub, s) ==
    \E i \in 1..(Len(s) - Len(sub) + 1) : SubSeq(s, i, i + Len(sub) - 1) = sub

\* test.py: the request of Test Case 1
math_query ==
    << "W", "h", "a", "t", " ", "i", "s", " ", "9", " ", "a", "d", "d", "e",
       "d", " ", "t", "o", " ", "5", " ", "a", "n", "d", " ", "t", "h", "e",
       "n", " ", "1", "3", " ", "s", "u", "b", "t", "r", "a", "c", "t", "e",
       "d", " ", "f", "r", "o", "m", " ", "t", "h", "e", " ", "r", "e", "s",
       "u", "l", "t", "?" >>

\* test.py: the request of Test Case 2
time_query ==
    << "W", "h", "a", "t", " ", "i", "s", " ", "t", "h", "e", " ", "t", "i",
       "m", "e", "?" >>

\* test.py: the request of Test Case 3
weather_query ==
    << "W", "h", "a", "t", " ", "i", "s", " ", "t", "h", "e", " ", "t", "i",
       "m", "e", " ", "i", "n", " ", "a", "n", "d", " ", "w", "e", "a", "t",
       "h", "e", "r", " ", "i", "n", " ", "N", "e", "w", " ", "Y", "o", "r",
       "k", ".", " ", "A", "f", "t", "e", "r", " ", "f", "e", "t", "c", "h",
       "i", "n", "g", " ", "t", "i", "m", "e", " ", "a", "n", "d", " ", "w",
       "e", "a", "t", "h", "e", "r", ",", " ", "a", "d", "d", " ", "t", "h",
       "e", " ", "t", "e", "m", "p", "e", "r", "a", "t", "u", "r", "e", " ",
       "i", "n", " ", "f", "a", "h", "r", "e", "i", "n", "h", "e", "i", "t",
       " ", "a", "n", "d", " ", "m", "i", "n", "u", "t", "e", "s", " ", "o",
       "f", " ", "t", "h", "e", " ", "t", "i", "m", "e", "s", " ", "f", "e",
       "t", "c", "h", "e", "d", ".", "?" >>

\* Workflow-1.py: the request of the travel workflow
travel_query ==
    << "I", " ", "w", "a", "n", "t", " ", "t", "o", " ", "v", "i", "s", "i",
       "t", " ", "a", " ", "p", "l", "a", "c", "e", " ", "i", "n", " ", "E",
       "u", "r", "o", "p", "e", " ", "t", "h", "a", "t", " ", "h", "a", "s",
       " ", "g", "r", "e", "a", "t", " ", "b", "e", "a", "c", "h", "e", "s",
       " ", "a", "n", "d", " ", "h", "i", "s", "t", "o", "r", "i", "c", "a",
       "l", " ", "r", "u", "i", "n", "s", "." >>

\* Workflow-3.py: the request of the parallel workflow
query ==
    << "S", "h", "o", "u", "l", "d", " ", "i", " ", "e", "a", "t", " ", "p",
       "i", "z", "z", "a", " ", "o", "n", " ", "a", " ", "r", "e", "g", "u",
       "l", "a", "r", " ", "b", "a", "s", "i", "s", "?" >>

\* Workflow-2.py: the request of the demographics workflow
demographics_query ==
    << "F", "o", "r", " ", "t", "h", "e", " ", "n", "a", "m", "e", " ",
       "A", "d", "i", "t", "y", "a", ",", " ", "p", "r", "e", "d", "i",
       "c", "t", " ", "a", "g", "e", " ", "a", "n", "d", " ", "g", "e",
       "n", "d", "e", "r", "." >>

-----------------------------------------------------------------------------
\* Inputs

\* pieces of request text: "tim" \o "e" only forms the keyword across a
\* boundary, "TiME" and "Add" only after lower()
Fragments ==
    { <<"t", "i", "m">>, <<"e">>, <<"T", "i", "M", "E">>,
      <<"A", "d", "d">>, <<"s", "u", "b", "t", "r", "a", "c", "t">>,
      <<"+">>, <<"-">> }

RECURSIVE Concats(_)
Concats(n) ==
    IF n = 0 THEN { <<>> }
    ELSE LET shorter == Concats(n - 1)
         IN  shorter \cup { s \o f : s \in shorter, f \in Fragments }

Texts == Concats(MaxFrags) \cup { math_query, time_query, weather_query }

\* types.Content(role="user", parts=[types.Part(text=...)]); the message, its
\* parts or the first part's text may be absent
Content(t) == [present |-> TRUE, parts |-> << [has_text |-> TRUE, text |-> t] >>]

NoContent == [present |-> FALSE, parts |-> << >>]

NoParts == [present |-> TRUE, parts |-> << >>]

NoText == [present |-> TRUE, parts |-> << [has_text |-> FALSE, text |-> << >>] >>]

-----------------------------------------------------------------------------
\* The agent trees

Master == "MasterOrchestrator"

\* test.py
math_orchestrator == "MathOrchestrator"

time_orchestrator == "TimeOrchestrator"

arithmetic_agent == "ArithmeticAgent"

time_weather_agent == "TimeWeatherAgent"

\* Workflow-1.py
orchestrator_agent == "OrchestratorAgent"

country_agent == "CountryAgent"

city_agent == "CityAgent"

\* Workflow-3.py
orchestrator == "Orchestrator"

parallel_stage == "ParallelStage"

PROS_Agent == "PROSAgent"

CONS_Agent == "CONSAgent"

final_agent == "FinalSynthesizer"

\* Workflow-2.py
agent == "demographics_agent"

Roots == { Master, orchestrator_agent, orchestrator, agent }

Agents ==
    { Master, math_orchestrator, time_orchestrator, arithmetic_agent,
      time_weather_agent, orchestrator_agent, country_agent, city_agent,
      orchestrator, parallel_stage, PROS_Agent, CONS_Agent, final_agent,
      agent }

\* Workflow-3's orchestrator built as a ParallelAgent
Kind_OrchestratorParallel(a) ==
    CASE a = Master -> "router"
      [] a = orchestrator_agent -> "sequential"
      [] a \in { orchestrator, parallel_stage } -> "parallel"
      [] OTHER -> "llm"

Kind(a) ==
    CASE a = Master -> "router"
      [] a \in { orchestrator_agent, orchestrator } -> "sequential"
      [] a = parallel_stage -> "parallel"
      [] OTHER -> "llm"

\* sub_agents with Workflow-1's chain listed in the other order
sub_agents_CityFirst(a) ==
    CASE a = Master -> << math_orchestrator, time_orchestrator >>
      [] a = math_orchestrator -> << arithmetic_agent >>
      [] a = time_orchestrator -> << time_weather_agent >>
      [] a = orchestrator_agent -> << city_agent, country_agent >>
      [] a = orchestrator -> << parallel_stage, final_agent >>
      [] a = parallel_stage -> << PROS_Agent, CONS_Agent >>
      [] OTHER -> << >>

\* sub_agents with Workflow-3's chain listed in the other order
sub_agents_SynthesizerFirst(a) ==
    CASE a = Master -> << math_orchestrator, time_orchestrator >>
      [] a = math_orchestrator -> << arithmetic_agent >>
      [] a = time_orchestrator -> << time_weather_agent >>
      [] a = orchestrator_agent -> << country_agent, city_agent >>
      [] a = orchestrator -> << final_agent, parallel_stage >>
      [] a = parallel_stage -> << PROS_Agent, CONS_Agent >>
      [] OTHER -> << >>

sub_agents(a) ==
    CASE a = Master -> << math_orchestrator, time_orchestrator >>
      [] a = math_orchestrator -> << arithmetic_agent >>
      [] a = time_orchestrator -> << time_weather_agent >>
      [] a = orchestrator_agent -> << country_agent, city_agent >>
      [] a = orchestrator -> << parallel_stage, final_agent >>
      [] a = parallel_stage -> << PROS_Agent, CONS_Agent >>
      [] OTHER -> << >>

NoKey == "<no output_key>"

\* output_key with CONSAgent writing PROSAgent's key
output_key_SharedKey(a) ==
    CASE a = arithmetic_agent -> "calc_result"
      [] a = time_weather_agent -> "time_result"
      [] a = country_agent -> "country_recommendations"
      [] a = city_agent -> "city_recommendations"
      [] a = PROS_Agent -> "PROS"
      [] a = CONS_Agent -> "PROS"
      [] OTHER -> NoKey

\* output_key with CONSAgent declared without one
output_key_ConsUnset(a) ==
    CASE a = arithmetic_agent -> "calc_result"
      [] a = time_weather_agent -> "time_result"
      [] a = country_agent -> "country_recommendations"
      [] a = city_agent -> "city_recommendations"
      [] a = PROS_Agent -> "PROS"
      [] OTHER -> NoKey

\* output_key with CityAgent writing CountryAgent's key
output_key_CityWritesCountry(a) ==
    CASE a = arithmetic_agent -> "calc_result"
      [] a = time_weather_agent -> "time_result"
      [] a = country_agent -> "country_recommendations"
      [] a = city_agent -> "country_recommendations"
      [] a = PROS_Agent -> "PROS"
      [] a = CONS_Agent -> "CONS"
      [] OTHER -> NoKey

output_key(a) ==
    CASE a = arithmetic_agent -> "calc_result"
      [] a = time_weather_agent -> "time_result"
      [] a = country_agent -> "country_recommendations"
      [] a = city_agent -> "city_recommendations"
      [] a = PROS_Agent -> "PROS"
      [] a = CONS_Agent -> "CONS"
      [] OTHER -> NoKey

Children(a) == { sub_agents(a)[i] : i \in 1..Len(sub_agents(a)) }

LlmAgents == { a \in Agents : Kind(a) = "llm" }

SequentialAgents == { a \in Agents : Kind(a) = "sequential" }

ParallelAgents == { a \in Agents : Kind(a) = "parallel" }

\* create_session(app_name, user_id, session_id) calls of each main()
Sessions(r) ==
    CASE r = Master ->
           { <<"HierarchicalApp", "user1", "session1">>,
             <<"HierarchicalApp", "user1", "session2">>,
             <<"HierarchicalApp", "user2", "session3">> }
      [] r = orchestrator_agent -> { <<"TravelApp", "traveler_1", "session_trip_1">> }
      [] r = orchestrator -> { <<"ParallelApp", "user1", "session1">> }
      [] r = agent -> { <<"AgeGenderApp", "user_1", "session_1">> }

\* the requests main() sends
MainMessages(r) ==
    CASE r = Master ->
           { Content(math_query), Content(time_query), Content(weather_query) }
      [] r = orchestrator_agent -> { Content(travel_query) }
      [] r = orchestrator -> { Content(query) }
      [] r = agent -> { Content(demographics_query) }

\* the new_message of the n-th run: the router's first request is any
\* message; later runs on the same session store replay main()'s requests,
\* or send no message
Messages(r, n) ==
    IF r = Master
    THEN IF n = 1
         THEN { NoContent, NoParts, NoText } \cup { Content(t) : t \in Texts }
         ELSE MainMessages(r) \cup { NoContent }
    ELSE MainMessages(r)

-----------------------------------------------------------------------------
\* Session state: a dict

EmptyDict == [k \in {} |-> ""]

Get(d, k, default) == IF k \in DOMAIN d THEN d[k] ELSE default

Put(d, k, v) == [x \in (DOMAIN d) \cup {k} |-> IF x = k THEN v ELSE d[x]]

-----------------------------------------------------------------------------
\* Tools and capabilities

add(a, b) == a + b

subtract(a, b) == a - b

\* get_current_time(): strftime("%H:%M:%S") of whatever the clock shows
ClockValues == { "09:05:13", "23:59:59" }

\* a tool call; chain = TRUE passes the previous call's result as a
ToolCall(t, x, y, c) == [tool |-> t, a |-> x, b |-> y, chain |-> c]

ApplyTool(call, prev) ==
    LET x == IF call.chain THEN prev ELSE call.a
    IN  IF call.tool = "add" THEN add(x, call.b) ELSE subtract(x, call.b)

RECURSIVE RunPlan(_, _)
RunPlan(plan, prev) ==
    IF plan = << >> THEN prev
    ELSE RunPlan(Tail(plan), ApplyTool(Head(plan), prev))

\* the arithmetic of Test Case 1: 9 added to 5, then 13 subtracted from it
MathQueryPlan ==
    << ToolCall("add", 9, 5, FALSE), ToolCall("subtract", 0, 13, TRUE) >>

Operands == { 5 }

\* the tool calls ArithmeticAgent may make for a request
ToolPlans(t) ==
    IF t = math_query THEN { MathQueryPlan }
    ELSE { << ToolCall(op, x, y, FALSE) >> :
              op \in { "add", "subtract" }, x \in Operands, y \in Operands }

\* what a model call answers in its own words: opaque text, told apart by
\* the agent and the run that produced it
Reply(a, n) == a \o " reply " \o ToString(n)

-----------------------------------------------------------------------------
\* Workflow-2.py: the tools of demographics_agent

\* the names a model call may pass to fetch_demographics
Names == { "Aditya", "Ada" }

\* Python's None, as it shows in a result
None == "None"

\* what api.agify.io answers: a body with a prediction, or a body without
AgifyData(name) ==
    { [name |-> name, age |-> "36", count |-> "9421"],
      [error |-> "Request limit reached"] }

\* what api.genderize.io answers
GenderizeData(name) ==
    { [name |-> name, gender |-> "male", probability |-> "0.99", count |-> "9421"],
      [error |-> "Request limit reached"] }

\* return {"age": data.get("age"), "count": data.get("count")}
fetch_age(data) ==
    [age |-> Get(data, "age", None), count |-> Get(data, "count", None)]

\* return {"gender": data.get("gender"), "probability": data.get("probability")}
fetch_gender(data) ==
    [gender |-> Get(data, "gender", None),
     probability |-> Get(data, "probability", None)]

\* gather that is over as soon as one of the two has returned
gather_FirstCompleted(t1, t2) ==
    IF t1 = "raised" \/ t2 = "raised" THEN "raised"
    ELSE IF t1 = "returned" \/ t2 = "returned" THEN "returned"
    ELSE "pending"

\* await asyncio.gather(age_task, gender_task), as its awaiter sees it: the
\* first exception as soon as one is raised, the results once both returned
gather(t1, t2) ==
    IF t1 = "raised" \/ t2 = "raised" THEN "raised"
    ELSE IF t1 = "returned" /\ t2 = "returned" THEN "returned"
    ELSE "pending"

\* no call of fetch_demographics made
NoCall ==
    [pc |-> "idle", name |-> "", age_task |-> "unstarted",
     gender_task |-> "unstarted", age |-> EmptyDict, gender |-> EmptyDict,
     result |-> << >>]

\* the model call of agent a is inside a tool call
ToolRunning(a) == a = agent /\ fd.pc = "gathering"

-----------------------------------------------------------------------------
\* MasterOrchestrator._run_async_impl: the pure parts

user_input(c) ==
    IF c.present /\ c.parts # << >>
    THEN IF c.parts[1].has_text THEN c.parts[1].text ELSE << >>
    ELSE << >>

user_input_lower(c) == lower(user_input(c))

TimeKeyword == <<"t", "i", "m", "e">>

MathKeywords ==
    { <<"a", "d", "d">>, <<"s", "u", "b", "t", "r", "a", "c", "t">>,
      <<"+">>, <<"-">> }

IsTime(t) == Contains(TimeKeyword, t)

IsMath(t) == \E k \in MathKeywords : Contains(k, t)

\* the chain with the math rule tested before the time rule
RouteMathFirst(t) ==
    IF IsMath(t) THEN "math"
    ELSE IF IsTime(t) THEN "time"
    ELSE "none"

\* the chain with the math branch as its else
RouteMathDefault(t) ==
    IF IsTime(t) THEN "time"
    ELSE "math"

\* the if / elif / else chain
Route(t) ==
    IF IsTime(t) THEN "time"
    ELSE IF IsMath(t) THEN "math"
    ELSE "none"

BranchAgent(b) == IF b = "time" THEN time_orchestrator ELSE math_orchestrator

BranchKey(b) == IF b = "time" THEN "time_result" ELSE "calc_result"

\* the placeholders of the two branches exchanged
PlaceholderSwapped(b) == IF b = "time" THEN "Unknown Result" ELSE "Unknown Time"

Placeholder(b) == IF b = "time" THEN "Unknown Time" ELSE "Unknown Result"

Prefix(b) == IF b = "time" THEN "The time is: " ELSE "The calculated result is: "

Fallback == "I can only help with Math or Time requests."

\* result = ctx.session.state.get(key, placeholder); final_text = f"...{result}"
FinalText(b, d) == Prefix(b) \o Get(d, BranchKey(b), Placeholder(b))

Event(a, text) == [author |-> a, text |-> text]

\* the final Event authored with the math branch's name
RouterEventAsBranch(text) == Event(math_orchestrator, text)

\* Event(author=self.name, content=content)
RouterEvent(text) == Event(Master, text)

\* every run is made on the first session the program created
SessionOf_FirstCreated(c) == CHOOSE s \in Sessions(root) : TRUE

\* the Session the Runner fetched for this run's (app, user, session_id)
SessionOf(c) == c.sid

\* the loop body without its yield: the branch's Events stop at the router
RouterReemit_NoYield(stream, ev) == stream

\* `async for event in branch.run_async(ctx): yield event`
RouterReemit(stream, ev) == Append(stream, ev)

\* an agent's Event on its way to the caller: through the router when it is
\* the root, then through the Runner, which passes it on as it is
Deliver(stream, ev) ==
    IF root = Master /\ ev.author # Master
    THEN RouterReemit(stream, ev)
    ELSE Append(stream, ev)

\* the Event also accumulates into the session's history
Record(h, c, ev) == [h EXCEPT ![SessionOf(c)] = Append(@, ev)]

\* the Event with which a model call hands over to a sub-agent
TransferEvent(a, c) == Event(a, "transfer_to_agent: " \o c)

\* the request texts a later run sends again
RepeatedTexts == { user_input(m) : m \in Messages(Master, MaxRuns) }

\* the router skips a branch whose key is already in the session state
Branch_SkipsKnown ==
    LET b == Route(user_input_lower(ctx.user_content))
    IN  IF b # "none" /\ BranchKey(b) \in DOMAIN state[SessionOf(ctx)]
        THEN "none"
        ELSE b

\* the branch this run's request selects
Branch == Route(user_input_lower(ctx.user_content))

-----------------------------------------------------------------------------
\* Capabilities of the LlmAgents

Results(a, c) ==
    CASE a = arithmetic_agent ->
           { ToString(RunPlan(p, 0)) : p \in ToolPlans(user_input(c)) }
      [] a = time_weather_agent -> ClockValues
      [] OTHER -> { Reply(a, runs) }

-----------------------------------------------------------------------------
\* Initial state: a program has created its sessions and built its Runner

IdleStatus == [a \in Agents |-> "idle"]

NoSeen == [a \in Agents |-> EmptyDict]

NoFailure == [a \in Agents |-> {}]

Init ==
    /\ root \in Roots
    /\ state = [s \in Sessions(root) |-> EmptyDict]
    /\ ctx = [sid |-> CHOOSE s \in Sessions(root) : TRUE,
              user_content |-> NoContent, cancel |-> FALSE]
    /\ status = IdleStatus
    /\ rpc = "Idle"
    /\ dispatched = "none"
    /\ final_text = ""
    /\ events = << >>
    /\ emitted = << >>
    /\ history = [s \in Sessions(root) |-> << >>]
    /\ seen = NoSeen
    /\ failure = NoFailure
    /\ wrote = EmptyDict
    /\ runs = 0
    /\ routed = << >>
    /\ fd = NoCall

-----------------------------------------------------------------------------
\* Runner.run_async: one Execution Context per run, root agent started

RunnerStart ==
    /\ runs < MaxRuns
    /\ status[root] \in { "idle", "done", "failed", "cancelled" }
    /\ \E sid \in Sessions(root), msg \in Messages(root, runs + 1) :
           ctx' = [sid |-> sid, user_content |-> msg, cancel |-> FALSE]
    /\ status' = [IdleStatus EXCEPT ![root] = "running"]
    /\ rpc' = IF root = Master THEN "Inspecting" ELSE "Idle"
    /\ dispatched' = "none"
    /\ final_text' = ""
    /\ events' = << >>
    /\ emitted' = << >>
    /\ seen' = NoSeen
    /\ failure' = NoFailure
    /\ wrote' = EmptyDict
    /\ runs' = runs + 1
    /\ fd' = NoCall
    /\ UNCHANGED <<root, state, history, routed>>

-----------------------------------------------------------------------------
\* The router

\* lines 143-170: pick the branch and start it, or take the fallback text
RouterInspect ==
    /\ rpc = "Inspecting"
    /\ dispatched' = Branch
    /\ IF dispatched' = "none"
       THEN /\ final_text' = Fallback
            /\ rpc' = "NoMatch"
            /\ UNCHANGED status
       ELSE /\ status' = [status EXCEPT ![BranchAgent(dispatched')] = "running"]
            /\ rpc' = "Dispatched"
            /\ UNCHANGED final_text
    /\ routed' = IF user_input(ctx.user_content) \in RepeatedTexts
                  THEN Append(routed, <<user_input(ctx.user_content), dispatched'>>)
                  ELSE routed
    /\ UNCHANGED <<root, state, ctx, events, emitted, history, seen, failure,
                   wrote, runs, fd>>

\* the router reads the result only once the branch's key is in the state
RouterReadResult_AwaitKey ==
    /\ rpc = "Dispatched"
    /\ status[BranchAgent(dispatched)] = "done"
    /\ BranchKey(dispatched) \in DOMAIN state[SessionOf(ctx)]
    /\ final_text' = FinalText(dispatched, state[SessionOf(ctx)])
    /\ rpc' = "Finalizing"
    /\ UNCHANGED <<root, state, ctx, status, dispatched, events, emitted, history,
                   seen, failure, wrote, runs, routed, fd>>

\* the branch's stream is exhausted: read the branch's key from the state
RouterReadResult ==
    /\ rpc = "Dispatched"
    /\ status[BranchAgent(dispatched)] = "done"
    /\ final_text' = FinalText(dispatched, state[SessionOf(ctx)])
    /\ rpc' = "Finalizing"
    /\ UNCHANGED <<root, state, ctx, status, dispatched, events, emitted, history,
                   seen, failure, wrote, runs, routed, fd>>

\* the router drops what the branch had emitted when the branch raises
RouterAbort_DiscardPartial ==
    /\ rpc = "Dispatched"
    /\ status[BranchAgent(dispatched)] = "failed"
    /\ status' = [status EXCEPT ![Master] = "failed"]
    /\ failure' = [failure EXCEPT ![Master] = failure[BranchAgent(dispatched)]]
    /\ rpc' = "Aborted"
    /\ events' = << >>
    /\ UNCHANGED <<root, state, ctx, dispatched, final_text, emitted, history,
                   seen, wrote, runs, routed, fd>>

\* the branch raised: the exception leaves _run_async_impl
RouterAbort ==
    /\ rpc = "Dispatched"
    /\ status[BranchAgent(dispatched)] = "failed"
    /\ status' = [status EXCEPT ![Master] = "failed"]
    /\ failure' = [failure EXCEPT ![Master] = failure[BranchAgent(dispatched)]]
    /\ rpc' = "Aborted"
    /\ UNCHANGED <<root, state, ctx, dispatched, final_text, events, emitted,
                   history, seen, wrote, runs, routed, fd>>

\* lines 172-178: yield Event(author=self.name, content=final_text)
RouterEmitFinal ==
    /\ rpc \in { "Finalizing", "NoMatch" }
    /\ events' = Deliver(events, RouterEvent(final_text))
    /\ emitted' = Append(emitted, RouterEvent(final_text))
    /\ history' = Record(history, ctx, RouterEvent(final_text))
    /\ status' = [status EXCEPT ![Master] = "done"]
    /\ rpc' = "Done"
    /\ UNCHANGED <<root, state, ctx, dispatched, final_text, seen, failure, wrote,
                   runs, routed, fd>>

-----------------------------------------------------------------------------
\* LlmAgent

NoChildStarted(a) == \A c \in Children(a) : status[c] = "idle"

\* the model call transfers to a sub-agent, which it announces with an Event
LlmTransfer(a, c) ==
    /\ Kind(a) = "llm"
    /\ status[a] = "running"
    /\ ~ctx.cancel
    /\ c \in Children(a)
    /\ NoChildStarted(a)
    /\ status' = [status EXCEPT ![c] = "running"]
    /\ events' = Deliver(events, TransferEvent(a, c))
    /\ emitted' = Append(emitted, TransferEvent(a, c))
    /\ history' = Record(history, ctx, TransferEvent(a, c))
    /\ UNCHANGED <<root, state, ctx, rpc, dispatched, final_text, seen, failure, wrote, runs, routed, fd>>

\* the sub-agent it transferred to has finished, or failed
LlmTransferEnd(a, c) ==
    /\ Kind(a) = "llm"
    /\ status[a] = "running"
    /\ c \in Children(a)
    /\ status[c] \in { "done", "failed" }
    /\ status' = [status EXCEPT ![a] = status[c]]
    /\ failure' = [failure EXCEPT ![a] = failure[c]]
    /\ UNCHANGED <<root, state, ctx, rpc, dispatched, final_text, events, emitted, history, seen, wrote, runs, routed, fd>>

\* the agent invokes its own capability with the state as it is now
LlmInvoke(a) ==
    /\ Kind(a) = "llm"
    /\ status[a] = "running"
    /\ ~ctx.cancel
    /\ NoChildStarted(a)
    /\ seen' = [seen EXCEPT ![a] = state[SessionOf(ctx)]]
    /\ status' = [status EXCEPT ![a] = "awaiting"]
    /\ UNCHANGED <<root, state, ctx, rpc, dispatched, final_text, events, emitted, history, failure, wrote, runs, routed, fd>>

\* the capability returned r: write output_key, then one Event
LlmSucceed(a) ==
    /\ Kind(a) = "llm"
    /\ status[a] = "awaiting"
    /\ ~ctx.cancel
    /\ ~ToolRunning(a)
    /\ \E r \in Results(a, ctx.user_content) :
          /\ IF output_key(a) = NoKey
             THEN UNCHANGED <<state, wrote>>
             ELSE /\ state' = [state EXCEPT ![SessionOf(ctx)] = Put(@, output_key(a), r)]
                  /\ wrote' = Put(wrote, output_key(a), r)
          /\ events' = Deliver(events, Event(a, r))
          /\ emitted' = Append(emitted, Event(a, r))
          /\ history' = Record(history, ctx, Event(a, r))
    /\ status' = [status EXCEPT ![a] = "done"]
    /\ UNCHANGED <<root, ctx, rpc, dispatched, final_text, seen, failure, runs, routed, fd>>

\* the capability failed: no state write, no Event
LlmFail(a) ==
    /\ Kind(a) = "llm"
    /\ status[a] = "awaiting"
    /\ ~ctx.cancel
    /\ ~ToolRunning(a)
    /\ status' = [status EXCEPT ![a] = "failed"]
    /\ failure' = [failure EXCEPT ![a] = {a}]
    /\ UNCHANGED <<root, state, ctx, rpc, dispatched, final_text, events, emitted, history, seen, wrote, runs, routed, fd>>

-----------------------------------------------------------------------------
\* SequentialAgent

\* the next child to run: every child before it is done, it has not started
NextChild(a, k) ==
    /\ k \in 1..Len(sub_agents(a))
    /\ status[sub_agents(a)[k]] = "idle"
    /\ \A j \in 1..(k - 1) : status[sub_agents(a)[j]] = "done"

SeqStartNext(a, k) ==
    /\ Kind(a) = "sequential"
    /\ status[a] = "running"
    /\ ~ctx.cancel
    /\ NextChild(a, k)
    /\ status' = [status EXCEPT ![sub_agents(a)[k]] = "running"]
    /\ UNCHANGED <<root, state, ctx, rpc, dispatched, final_text, events, emitted, history, seen, failure,
                   wrote, runs, routed, fd>>

SeqFinish(a) ==
    /\ Kind(a) = "sequential"
    /\ status[a] = "running"
    /\ \A c \in Children(a) : status[c] = "done"
    /\ status' = [status EXCEPT ![a] = "done"]
    /\ UNCHANGED <<root, state, ctx, rpc, dispatched, final_text, events, emitted, history, seen, failure,
                   wrote, runs, routed, fd>>

\* fail-fast: a failed child ends the chain
SeqAbort(a, c) ==
    /\ Kind(a) = "sequential"
    /\ status[a] = "running"
    /\ c \in Children(a)
    /\ status[c] = "failed"
    /\ status' = [status EXCEPT ![a] = "failed"]
    /\ failure' = [failure EXCEPT ![a] = failure[c]]
    /\ UNCHANGED <<root, state, ctx, rpc, dispatched, final_text, events, emitted, history, seen, wrote, runs, routed, fd>>

-----------------------------------------------------------------------------
\* ParallelAgent

ParStart(a) ==
    /\ Kind(a) = "parallel"
    /\ status[a] = "running"
    /\ ~ctx.cancel
    /\ NoChildStarted(a)
    /\ status' = [x \in Agents |-> IF x \in Children(a) THEN "running" ELSE status[x]]
    /\ UNCHANGED <<root, state, ctx, rpc, dispatched, final_text, events, emitted, history, seen, failure,
                   wrote, runs, routed, fd>>

FailedChildren(a) == { c \in Children(a) : status[c] = "failed" }

\* every child has completed: done, or an aggregate failure naming the failed
ParFinish(a) ==
    /\ Kind(a) = "parallel"
    /\ status[a] = "running"
    /\ \A c \in Children(a) : status[c] \in { "done", "failed" }
    /\ IF FailedChildren(a) = {}
       THEN /\ status' = [status EXCEPT ![a] = "done"]
            /\ UNCHANGED failure
       ELSE /\ status' = [status EXCEPT ![a] = "failed"]
            /\ failure' = [failure EXCEPT ![a] = FailedChildren(a)]
    /\ UNCHANGED <<root, state, ctx, rpc, dispatched, final_text, events, emitted, history, seen, wrote, runs, routed, fd>>

-----------------------------------------------------------------------------
\* Workflow-2.py: fetch_demographics, called by the model call of the agent

\* lines 70-76: both coroutines are made and given to gather, which runs
\* them as two tasks
FetchDemographicsCall(name) ==
    /\ status[agent] = "awaiting"
    /\ fd.pc = "idle"
    /\ ~ctx.cancel
    /\ fd' = [NoCall EXCEPT !.pc = "gathering", !.name = name,
                            !.age_task = "pending", !.gender_task = "pending"]
    /\ UNCHANGED <<root, state, ctx, status, rpc, dispatched, final_text, events,
                   emitted, history, seen, failure, wrote, runs, routed>>

\* fetch_age returns what it made of the service's answer
FetchAgeReturn ==
    /\ fd.age_task = "pending"
    /\ ~ctx.cancel
    /\ \E data \in AgifyData(fd.name) :
           fd' = [fd EXCEPT !.age_task = "returned", !.age = fetch_age(data)]
    /\ UNCHANGED <<root, state, ctx, status, rpc, dispatched, final_text, events,
                   emitted, history, seen, failure, wrote, runs, routed>>

\* fetch_age raises: no connection, the 5 s timeout, a body that is not JSON
FetchAgeRaise ==
    /\ fd.age_task = "pending"
    /\ ~ctx.cancel
    /\ fd' = [fd EXCEPT !.age_task = "raised"]
    /\ UNCHANGED <<root, state, ctx, status, rpc, dispatched, final_text, events,
                   emitted, history, seen, failure, wrote, runs, routed>>

FetchGenderReturn ==
    /\ fd.gender_task = "pending"
    /\ ~ctx.cancel
    /\ \E data \in GenderizeData(fd.name) :
           fd' = [fd EXCEPT !.gender_task = "returned", !.gender = fetch_gender(data)]
    /\ UNCHANGED <<root, state, ctx, status, rpc, dispatched, final_text, events,
                   emitted, history, seen, failure, wrote, runs, routed>>

FetchGenderRaise ==
    /\ fd.gender_task = "pending"
    /\ ~ctx.cancel
    /\ fd' = [fd EXCEPT !.gender_task = "raised"]
    /\ UNCHANGED <<root, state, ctx, status, rpc, dispatched, final_text, events,
                   emitted, history, seen, failure, wrote, runs, routed>>

\* lines 78-82: the await is over with both results, the dict is returned
FetchDemographicsReturn ==
    /\ fd.pc = "gathering"
    /\ ~ctx.cancel
    /\ gather(fd.age_task, fd.gender_task) = "returned"
    /\ fd' = [fd EXCEPT !.pc = "returned",
                        !.result = << [name |-> fd.name,
                                       age_prediction |-> fd.age,
                                       gender_prediction |-> fd.gender] >>]
    /\ UNCHANGED <<root, state, ctx, status, rpc, dispatched, final_text, events,
                   emitted, history, seen, failure, wrote, runs, routed>>

\* the await raises what a fetch raised: it leaves fetch_demographics
FetchDemographicsRaise ==
    /\ fd.pc = "gathering"
    /\ ~ctx.cancel
    /\ gather(fd.age_task, fd.gender_task) = "raised"
    /\ fd' = [fd EXCEPT !.pc = "raised"]
    /\ UNCHANGED <<root, state, ctx, status, rpc, dispatched, final_text, events,
                   emitted, history, seen, failure, wrote, runs, routed>>

-----------------------------------------------------------------------------

Next ==
    \/ RunnerStart
    \/ RouterInspect
    \/ RouterReadResult
    \/ RouterAbort
    \/ RouterEmitFinal
    \/ \E a \in LlmAgents : \E c \in Children(a) : LlmTransfer(a, c)
    \/ \E a \in LlmAgents : \E c \in Children(a) : LlmTransferEnd(a, c)
    \/ \E a \in LlmAgents : LlmInvoke(a)
    \/ \E a \in LlmAgents : LlmSucceed(a)
    \/ \E a \in LlmAgents : LlmFail(a)
    \/ \E a \in SequentialAgents : \E k \in 1..Len(sub_agents(a)) : SeqStartNext(a, k)
    \/ \E a \in SequentialAgents : SeqFinish(a)
    \/ \E a \in SequentialAgents : \E c \in Children(a) : SeqAbort(a, c)
    \/ \E a \in ParallelAgents : ParStart(a)
    \/ \E a \in ParallelAgents : ParFinish(a)
    \/ \E name \in Names : FetchDemographicsCall(name)
    \/ FetchAgeReturn
    \/ FetchAgeRaise
    \/ FetchGenderReturn
    \/ FetchGenderRaise
    \/ FetchDemographicsReturn
    \/ FetchDemographicsRaise

Spec == Init /\ [][Next]_vars

-----------------------------------------------------------------------------
\* Cancellation of a run

\* an agent that has started and not ended
Active(a) == status[a] \in { "running", "awaiting" }

\* the run is suspended: some leaf is waiting for its capability's result
Suspended == \E a \in LlmAgents : status[a] = "awaiting"

\* the caller cancels the run while it is suspended
RaiseCancel ==
    /\ status[root] = "running"
    /\ Suspended
    /\ ~ctx.cancel
    /\ ctx' = [ctx EXCEPT !.cancel = TRUE]
    /\ UNCHANGED <<root, state, status, rpc, dispatched, final_text, events,
                   emitted, history, seen, failure, wrote, runs, routed, fd>>

\* a leaf observes the signal: its pending capability call is aborted, or it
\* ends before it makes one
LlmCancel(a) ==
    /\ Kind(a) = "llm"
    /\ ctx.cancel
    /\ \/ status[a] = "awaiting"
       \/ status[a] = "running" /\ NoChildStarted(a)
    /\ status' = [status EXCEPT ![a] = "cancelled"]
    /\ UNCHANGED <<root, state, ctx, rpc, dispatched, final_text, events,
                   emitted, history, seen, failure, wrote, runs, routed, fd>>

\* the sub-agent it transferred to was cancelled
LlmTransferCancel(a, c) ==
    /\ Kind(a) = "llm"
    /\ status[a] = "running"
    /\ c \in Children(a)
    /\ status[c] = "cancelled"
    /\ status' = [status EXCEPT ![a] = "cancelled"]
    /\ UNCHANGED <<root, state, ctx, rpc, dispatched, final_text, events,
                   emitted, history, seen, failure, wrote, runs, routed, fd>>

\* a composite observes the signal: it starts nothing more, and ends once
\* the children that were running have been cancelled
CompositeCancel(a) ==
    /\ Kind(a) \in { "sequential", "parallel" }
    /\ status[a] = "running"
    /\ ctx.cancel
    /\ \A c \in Children(a) : ~Active(c)
    /\ \E c \in Children(a) : status[c] \in { "idle", "cancelled" }
    /\ status' = [status EXCEPT ![a] = "cancelled"]
    /\ UNCHANGED <<root, state, ctx, rpc, dispatched, final_text, events,
                   emitted, history, seen, failure, wrote, runs, routed, fd>>

\* the router catches the cancellation of its branch and goes on to its
\* final Event
RouterCancel_Swallow ==
    /\ rpc = "Dispatched"
    /\ status[BranchAgent(dispatched)] = "cancelled"
    /\ final_text' = FinalText(dispatched, state[SessionOf(ctx)])
    /\ rpc' = "Finalizing"
    /\ UNCHANGED <<root, state, ctx, status, dispatched, events, emitted,
                   history, seen, failure, wrote, runs, routed, fd>>

\* the cancellation leaves the branch loop of the router: nothing catches it
RouterCancel ==
    /\ rpc = "Dispatched"
    /\ status[BranchAgent(dispatched)] = "cancelled"
    /\ status' = [status EXCEPT ![Master] = "cancelled"]
    /\ rpc' = "Cancelled"
    /\ UNCHANGED <<root, state, ctx, dispatched, final_text, events, emitted,
                   history, seen, failure, wrote, runs, routed, fd>>

CancelNext ==
    \/ Next
    \/ RaiseCancel
    \/ \E a \in LlmAgents : LlmCancel(a)
    \/ \E a \in LlmAgents : \E c \in Children(a) : LlmTransferCancel(a, c)
    \/ \E a \in SequentialAgents \cup ParallelAgents : CompositeCancel(a)
    \/ RouterCancel

\* a step of the run in progress
RunStep == Next /\ runs' = runs

\* the programs with every started run carried on: a pending capability call
\* returns or fails, and an agent that can take its next step takes it
FairSpec == Spec /\ WF_vars(RunStep)

\* the programs with a caller that may cancel a run
CancelSpec == Init /\ [][CancelNext]_vars

-----------------------------------------------------------------------------
\* Vocabulary of the properties

\* the lower-cased request text of this run
RequestLower == lower(user_input(ctx.user_content))

HasTimeKeyword == Contains(<<"t", "i", "m", "e">>, RequestLower)

HasMathKeyword ==
    LET t == RequestLower
    IN  \/ Contains(<<"a", "d", "d">>, t)
        \/ Contains(<<"s", "u", "b", "t", "r", "a", "c", "t">>, t)
        \/ Contains(<<"+">>, t)
        \/ Contains(<<"-">>, t)

Started(a) == status[a] # "idle"

MathBranchIdle == ~Started(math_orchestrator) /\ ~Started(arithmetic_agent)

TimeBranchIdle == ~Started(time_orchestrator) /\ ~Started(time_weather_agent)

RouterEvents == { i \in 1..Len(events) : events[i].author = Master }

LastEvent == events[Len(events)]

-----------------------------------------------------------------------------
\* C1: a request whose lower-cased text contains "time" and also a math
\* keyword runs the time branch and never the math branch.
C1_TimeRuleFirst ==
    (root = Master /\ HasTimeKeyword /\ HasMathKeyword)
        => /\ MathBranchIdle
           /\ rpc \in { "Dispatched", "Finalizing", "Done", "Aborted" }
                 => Started(time_orchestrator)
           /\ rpc # "NoMatch"

C1_Witness ==
    /\ root = Master
    /\ HasTimeKeyword /\ HasMathKeyword
    /\ rpc = "Done"
    /\ status[time_orchestrator] = "done"

\* C2: a request with neither keyword produces exactly one Event, the
\* router's, with the fixed fallback text, and starts no branch.
C2_NoMatchFallback ==
    (root = Master /\ ~HasTimeKeyword /\ ~HasMathKeyword)
        => /\ MathBranchIdle /\ TimeBranchIdle
           /\ rpc \notin { "Dispatched", "Finalizing", "Aborted" }
           /\ rpc = "Done" =>
                 events = << [author |-> "MasterOrchestrator",
                              text |-> "I can only help with Math or Time requests."] >>
           /\ rpc # "Done" => events = << >>

C2_Witness ==
    /\ root = Master
    /\ user_input(ctx.user_content) # << >>
    /\ ~HasTimeKeyword /\ ~HasMathKeyword
    /\ rpc = "Done"
    /\ Len(events) = 1

\* C3 as claimed: every invocation that has ended, the one whose branch
\* failed included, has emitted exactly one router Event, as its last Event.
C3_AlwaysOneFinalEvent ==
    (root = Master /\ status[Master] \in { "done", "failed" })
        => /\ Cardinality(RouterEvents) = 1
           /\ LastEvent.author = Master

\* C3 as amended: an invocation that completes (time branch, math branch or
\* no match) has emitted exactly one router Event and it is the last Event;
\* an invocation whose branch failed has emitted no router Event; while the
\* invocation runs the router has emitted none.
C3_OneFinalEventUnlessAborted ==
    root = Master
        => /\ status[Master] = "done"
                => /\ Cardinality(RouterEvents) = 1
                   /\ LastEvent.author = Master
                   /\ LastEvent.text = final_text
           /\ status[Master] # "done" => RouterEvents = {}
           /\ status[Master] = "failed" <=> rpc = "Aborted"

C3_Witness ==
    /\ root = Master
    /\ status[Master] = "done"
    /\ Len(events) = 3
    /\ events[2].author = arithmetic_agent

\* C8: when the selected branch completes and its key is not in the session
\* state, the router does not fail and its one final Event carries the
\* placeholder.
C8_PlaceholderText(b) ==
    IF b = "time" THEN "The time is: Unknown Time"
    ELSE "The calculated result is: Unknown Result"

C8_MissingKeyPlaceholder ==
    \A b \in { "time", "math" } :
        ( /\ root = Master
          /\ status[BranchAgent(b)] = "done"
          /\ (IF b = "time" THEN "time_result" ELSE "calc_result")
                \notin DOMAIN state[ctx.sid]
          /\ IF b = "time" THEN HasTimeKeyword ELSE ~HasTimeKeyword /\ HasMathKeyword )
            => /\ status[Master] # "failed"
               /\ rpc \in { "Dispatched", "Finalizing", "Done" }
               /\ rpc = "Finalizing" => final_text = C8_PlaceholderText(b)
               /\ rpc = "Done"
                     => /\ LastEvent = [author |-> "MasterOrchestrator",
                                        text |-> C8_PlaceholderText(b)]
                        /\ Cardinality(RouterEvents) = 1

C8_Witness ==
    /\ root = Master
    /\ rpc = "Done"
    /\ status[math_orchestrator] = "done"
    /\ "calc_result" \notin DOMAIN state[ctx.sid]
    /\ LastEvent.text = "The calculated result is: Unknown Result"

\* C4: in OrchestratorAgent = [CountryAgent, CityAgent] and in Orchestrator =
\* [ParallelStage, FinalSynthesizer] every Event of the second child comes
\* after every Event of the first, and the second child's capability is
\* invoked with a state that holds every key the first child wrote.
Invoked(a) == status[a] \in { "awaiting", "done", "failed" }

AllBefore(first, second) ==
    \A i \in 1..Len(events), j \in 1..Len(events) :
        (events[i].author \in first /\ events[j].author \in second) => i < j

SawWritten(a, k) ==
    /\ k \in DOMAIN wrote
    /\ k \in DOMAIN seen[a]
    /\ seen[a][k] = wrote[k]

C4_SequentialOrder ==
    /\ root = orchestrator_agent
          => /\ AllBefore({ "CountryAgent" }, { "CityAgent" })
             /\ Invoked(city_agent)
                   => SawWritten(city_agent, "country_recommendations")
    /\ root = orchestrator
          => /\ AllBefore({ "PROSAgent", "CONSAgent" }, { "FinalSynthesizer" })
             /\ Invoked(final_agent)
                   => /\ SawWritten(final_agent, "PROS")
                      /\ SawWritten(final_agent, "CONS")

C4_Witness ==
    /\ root = orchestrator
    /\ status[orchestrator] = "done"
    /\ Len(events) = 3
    /\ events[1].author = "CONSAgent"
    /\ events[3].author = "FinalSynthesizer"

\* C5: once ParallelStage has completed, PROS and CONS are both in the
\* session state, each holding the result its own child produced in this
\* run, whichever child's Event came first.
HoldsResultOf(k, a) ==
    /\ k \in DOMAIN state[ctx.sid]
    /\ \E i \in 1..Len(events) :
          events[i] = [author |-> a, text |-> state[ctx.sid][k]]

C5_ParallelBothKeys ==
    (root = orchestrator /\ status[parallel_stage] = "done")
        => /\ HoldsResultOf("PROS", "PROSAgent")
           /\ HoldsResultOf("CONS", "CONSAgent")

C5_Witness ==
    /\ root = orchestrator
    /\ status[parallel_stage] = "done"
    /\ events[1].author = "CONSAgent"
    /\ events[2].author = "PROSAgent"
    /\ state[ctx.sid]["PROS"] # state[ctx.sid]["CONS"]

\* C6 as claimed: for "What is the time?" the final Event text is "The time
\* is: <value>" with the value written to time_result in this run, never
\* "The time is: Unknown Time".
C6_TimeQueryHasValue ==
    (root = Master /\ user_input(ctx.user_content) = time_query /\ rpc = "Done")
        => /\ Started(time_orchestrator)
           /\ "time_result" \in DOMAIN wrote
           /\ LastEvent = [author |-> "MasterOrchestrator",
                           text |-> "The time is: " \o wrote["time_result"]]
           /\ LastEvent.text # "The time is: Unknown Time"

\* C7 as claimed: for the request of Test Case 1 the final Event text is
\* "The calculated result is: 1".
C7_MathQueryYieldsOne ==
    (root = Master /\ user_input(ctx.user_content) = math_query /\ rpc = "Done")
        => /\ Started(math_orchestrator)
           /\ LastEvent = [author |-> "MasterOrchestrator",
                           text |-> "The calculated result is: 1"]

\* C9: when a child of a Sequential agent fails no later child is started,
\* the Events emitted before the failure have been delivered in order, and
\* the keys the earlier children wrote keep their values.
Delivered(a, k) ==
    /\ k \in DOMAIN wrote
    /\ k \in DOMAIN state[ctx.sid]
    /\ state[ctx.sid][k] = wrote[k]
    /\ \E i \in 1..Len(events) : events[i] = [author |-> a, text |-> wrote[k]]

C9_SequentialFailFast ==
    /\ (root = orchestrator_agent /\ status[country_agent] = "failed")
          => /\ ~Started(city_agent)
             /\ events = << >>
    /\ (root = orchestrator_agent /\ status[city_agent] = "failed")
          => /\ Len(events) = 1
             /\ Delivered("CountryAgent", "country_recommendations")
    /\ (root = orchestrator /\ status[parallel_stage] = "failed")
          => /\ ~Started(final_agent)
             /\ \A i \in 1..Len(events) : events[i].author # "FinalSynthesizer"
    /\ (root = orchestrator /\ status[final_agent] = "failed")
          => /\ Len(events) = 2
             /\ Delivered("PROSAgent", "PROS")
             /\ Delivered("CONSAgent", "CONS")
    /\ \A a \in { orchestrator_agent, orchestrator } :
          status[a] = "failed" => \E c \in Children(a) : status[c] = "failed"

C9_Witness ==
    /\ root = orchestrator_agent
    /\ status[orchestrator_agent] = "failed"
    /\ status[city_agent] = "failed"
    /\ "country_recommendations" \in DOMAIN state[ctx.sid]
    /\ Len(events) = 1

\* C10: when a child of ParallelStage fails the other child still runs to
\* completion; the group fails only once every child has completed, its
\* failure names exactly the children that failed, and the keys written by
\* the children that succeeded are in the session state.
C10_ParallelAggregateFailure ==
    (root = orchestrator /\ status[parallel_stage] = "failed")
        => /\ \A c \in { PROS_Agent, CONS_Agent } : status[c] \in { "done", "failed" }
           /\ failure[parallel_stage]
                 = { c \in { PROS_Agent, CONS_Agent } : status[c] = "failed" }
           /\ failure[parallel_stage] # {}
           /\ status[PROS_Agent] = "done" => Delivered("PROSAgent", "PROS")
           /\ status[CONS_Agent] = "done" => Delivered("CONSAgent", "CONS")

C10_Witness ==
    /\ root = orchestrator
    /\ status[parallel_stage] = "failed"
    /\ status[PROS_Agent] = "failed"
    /\ status[CONS_Agent] = "done"
    /\ "CONS" \in DOMAIN state[ctx.sid]
    /\ failure[parallel_stage] = { "PROSAgent" }

\* C11: after a Leaf with an output_key has completed in a session, the
\* session's state holds under that key exactly the result the Leaf produced
\* in this run (the text of its one Event).
C11_LeafKeys ==
    { <<"CityAgent", "city_recommendations">>,
      <<"CountryAgent", "country_recommendations">>,
      <<"TimeWeatherAgent", "time_result">>,
      <<"ArithmeticAgent", "calc_result">>,
      <<"PROSAgent", "PROS">>,
      <<"CONSAgent", "CONS">> }

EventsBy(a) == { i \in 1..Len(events) : events[i].author = a }

C11_OutputKeyRoundTrip ==
    \A p \in C11_LeafKeys :
        status[p[1]] = "done"
            => /\ p[2] \in DOMAIN state[ctx.sid]
               /\ Cardinality(EventsBy(p[1])) = 1
               /\ \A i \in EventsBy(p[1]) : events[i].text = state[ctx.sid][p[2]]

C11_Witness ==
    /\ root = orchestrator_agent
    /\ status[orchestrator_agent] = "done"
    /\ runs = 2
    /\ state[ctx.sid]["city_recommendations"] = "CityAgent reply 2"
    /\ state[ctx.sid]["country_recommendations"] = "CountryAgent reply 2"


-----------------------------------------------------------------------------
\* Session isolation

\* C12: a step of a run on one session leaves the state mapping and the
\* history of every other session as they were, over every sequence of runs
C12_SessionIsolation ==
    [][\A s \in Sessions(root) :
           s # ctx'.sid => state'[s] = state[s] /\ history'[s] = history[s]]_vars

\* a second run, on session2, has written and recorded next to what the
\* first run left in session1
C12_Witness ==
    /\ root = Master
    /\ runs = 2
    /\ ctx.sid = <<"HierarchicalApp", "user1", "session2">>
    /\ "time_result" \in DOMAIN state[<<"HierarchicalApp", "user1", "session2">>]
    /\ DOMAIN state[<<"HierarchicalApp", "user1", "session1">>] = { "calc_result" }
    /\ history[<<"HierarchicalApp", "user1", "session1">>] # << >>
    /\ history[<<"HierarchicalApp", "user1", "session2">>] # << >>
    /\ state[<<"HierarchicalApp", "user2", "session3">>] = EmptyDict


-----------------------------------------------------------------------------
\* The Runner's caller

\* C13: at every point of every run the Events the caller has received are
\* the Events the root agent produced, in the same order, none dropped and
\* none twice
C13_CallerReceivesRootStream == events = emitted

\* a finished run of the router on the time branch: the transfer and the
\* leaf's Event came through the router, then the router's own Event
C13_Witness ==
    /\ root = Master
    /\ rpc = "Done"
    /\ Len(emitted) = 3
    /\ emitted[1] = TransferEvent(time_orchestrator, time_weather_agent)
    /\ emitted[2].author = time_weather_agent
    /\ emitted[3].author = Master


-----------------------------------------------------------------------------
\* Abort of a run

\* the Events of a stream are all authored inside the branch b
FromBranch(stream, b) ==
    \A i \in 1..Len(stream) :
        stream[i].author \in { BranchAgent(b) } \cup Children(BranchAgent(b))

\* C14: when the branch the router delegated to fails after emitting k
\* Events, the caller already holds exactly those k Events, in order, at the
\* moment the failure reaches it, and the abort discards none of them
C14_AbortKeepsEvents ==
    [][rpc' = "Aborted" =>
          /\ status'[Master] = "failed"
          /\ failure'[Master] # {}
          /\ events = emitted
          /\ events' = events
          /\ FromBranch(events', dispatched')]_vars

\* the math branch announced its transfer, then its leaf failed: k = 1
C14_Witness ==
    /\ rpc = "Aborted"
    /\ events = << TransferEvent(math_orchestrator, arithmetic_agent) >>
    /\ failure[Master] = { arithmetic_agent }


-----------------------------------------------------------------------------
\* Cancellation

\* what a step may do to agent a once the signal is raised
C15_ObservesCancel(a) ==
    /\ status[a] = "idle" => status'[a] = "idle"
    /\ status[a] = "awaiting" => status'[a] \in { "awaiting", "cancelled" }
    /\ status[a] = "running" => status'[a] \in { "running", "cancelled" }

\* C15: once the cancellation signal of the run is raised, no agent starts
\* a child or a capability call, a leaf's pending capability call is aborted
\* and never returns, every agent that was running ends cancelled, and
\* nothing more is written or emitted; when the root has ended cancelled no
\* agent under it is still running
C15_CancelObserved ==
    /\ [][ctx.cancel /\ ctx'.cancel =>
              /\ \A a \in Agents : C15_ObservesCancel(a)
              /\ state' = state
              /\ events' = events]_vars
    /\ [](status[root] = "cancelled" => \A a \in Agents : ~Active(a))
    /\ [](ctx.cancel /\ ~Active(root) => status[root] = "cancelled")

\* the math run was cancelled while ArithmeticAgent waited for its model
\* call: the leaf, its orchestrator and the router ended cancelled
C15_Witness ==
    /\ rpc = "Cancelled"
    /\ ctx.cancel
    /\ status[arithmetic_agent] = "cancelled"
    /\ status[math_orchestrator] = "cancelled"
    /\ status[Master] = "cancelled"
    /\ seen[arithmetic_agent] = state[ctx.sid]


-----------------------------------------------------------------------------
\* Termination

\* C16 as stated: every invocation eventually reaches its Done state
C16_AlwaysReachesDone == (status[root] = "running") ~> (status[root] = "done")

\* C16: when every capability call returns or fails, every invocation of the
\* root (the router, or the sequential composition of a workflow) ends, done
\* or with the failure of a child passed on; no composition under it is
\* still running when it has ended; and the run has emitted no more than one
\* Event per model call and one of the router
C16_EveryInvocationEnds ==
    /\ (status[root] = "running") ~> (status[root] \in { "done", "failed" })
    /\ [](~Active(root) => \A a \in Agents : ~Active(a))
    /\ [](Len(emitted) <= Cardinality(LlmAgents) + 1)

\* the run of the parallel workflow ended with the failure of PROSAgent
\* passed on, after the Event of CONSAgent
C16_Witness ==
    /\ root = orchestrator
    /\ status[orchestrator] = "failed"
    /\ failure[orchestrator] = { PROS_Agent }
    /\ Len(emitted) = 1
    /\ emitted[1].author = CONS_Agent


-----------------------------------------------------------------------------
\* Parallel stage, then the synthesizer

\* C17: under every interleaving of PROSAgent and CONSAgent, FinalSynthesizer
\* is started only when both have completed and the parallel stage is done,
\* so the state it starts with, and the state its capability is invoked
\* with, hold the PROS and the CONS this run wrote
C17_SynthesizerAfterBoth ==
    /\ (root = orchestrator /\ Started(final_agent))
           => /\ status[PROS_Agent] = "done"
              /\ status[CONS_Agent] = "done"
              /\ status[parallel_stage] = "done"
              /\ { "PROS", "CONS" } \subseteq DOMAIN wrote
              /\ \A k \in { "PROS", "CONS" } : state[ctx.sid][k] = wrote[k]
    /\ (root = orchestrator /\ Invoked(final_agent))
           => \A k \in { "PROS", "CONS" } :
                  k \in DOMAIN seen[final_agent] /\ seen[final_agent][k] = wrote[k]

\* second run: CONSAgent completed before PROSAgent, the synthesizer's model
\* call is pending with this run's PROS and CONS
C17_Witness ==
    /\ root = orchestrator
    /\ runs = 2
    /\ status[final_agent] = "awaiting"
    /\ emitted[1].author = CONS_Agent
    /\ emitted[2].author = PROS_Agent
    /\ seen[final_agent]["PROS"] = Reply(PROS_Agent, 2)
    /\ seen[final_agent]["CONS"] = Reply(CONS_Agent, 2)


-----------------------------------------------------------------------------
\* The reference routing function

\* the request text, the empty string when the message, its parts or the
\* first part's text is absent
RefText(c) ==
    IF ~c.present THEN << >>
    ELSE IF Len(c.parts) = 0 THEN << >>
    ELSE IF ~c.parts[1].has_text THEN << >>
    ELSE c.parts[1].text

\* lower-case letter -> its upper-case letter
UpperOf ==
    [c \in { LowerCase[i] : i \in 1..Len(LowerCase) } |->
        UpperCase[CHOOSE i \in 1..Len(LowerCase) : LowerCase[i] = c]]

\* x is the letter y, in either case (y is lower-case)
SameLetter(x, y) == x = y \/ (y \in DOMAIN UpperOf /\ UpperOf[y] = x)

\* keyword k occurs in t, whatever the case of t's letters
RefContains(k, t) ==
    \E i \in 0..(Len(t) - Len(k)) : \A j \in 1..Len(k) : SameLetter(t[i + j], k[j])

RefBranch(t) ==
    IF RefContains(<<"t", "i", "m", "e">>, t) THEN "time"
    ELSE IF \/ RefContains(<<"a", "d", "d">>, t)
            \/ RefContains(<<"s", "u", "b", "t", "r", "a", "c", "t">>, t)
            \/ RefContains(<<"+">>, t)
            \/ RefContains(<<"-">>, t)
         THEN "math"
    ELSE "none"

\* C18: once the router has inspected the request, the branch it is in is
\* the one the reference function gives for the request text: that branch
\* was started and the other was not, or none was and the router took the
\* NoMatch path; an absent or empty message takes the NoMatch path
C18_BranchIsReference ==
    (root = Master /\ rpc \notin { "Idle", "Inspecting" })
        => LET b == RefBranch(RefText(ctx.user_content))
           IN  /\ dispatched = b
               /\ b = "time" => Started(time_orchestrator) /\ MathBranchIdle
               /\ b = "math" => Started(math_orchestrator) /\ TimeBranchIdle
               /\ b = "none" => /\ MathBranchIdle /\ TimeBranchIdle
                                /\ rpc \in { "NoMatch", "Done" }
               /\ RefText(ctx.user_content) = << >> => b = "none"

\* "TiME" was routed to the time branch
C18_Witness ==
    /\ root = Master
    /\ ctx.user_content = Content(<<"T", "i", "M", "E">>)
    /\ dispatched = "time"
    /\ status[time_orchestrator] = "done"
    /\ rpc = "Finalizing"


-----------------------------------------------------------------------------
\* Routing is a function of the request text

\* C19: two invocations of the router with the same request text chose the
\* same branch (or both none), whatever the state and the history of their
\* sessions; an invocation starts at most one branch; and nothing is written
\* to the session state in an invocation before its branch has started, and
\* nothing at all when it starts none
C19_RoutingIsPure ==
    root = Master
        => /\ \A i \in DOMAIN routed : \A j \in DOMAIN routed :
                  routed[i][1] = routed[j][1] => routed[i][2] = routed[j][2]
           /\ ~(Started(math_orchestrator) /\ Started(time_orchestrator))
           /\ (MathBranchIdle /\ TimeBranchIdle) => wrote = EmptyDict
           /\ dispatched = "none" => wrote = EmptyDict

\* the request of Test Case 1 was sent twice to session1: the second time
\* the state held calc_result and the history was not empty, and the router
\* chose the math branch again, having written nothing
C19_Witness ==
    /\ root = Master
    /\ runs = 2
    /\ ctx = [sid |-> <<"HierarchicalApp", "user1", "session1">>,
              user_content |-> Content(math_query), cancel |-> FALSE]
    /\ routed = << <<math_query, "math">>, <<math_query, "math">> >>
    /\ "calc_result" \in DOMAIN state[ctx.sid]
    /\ history[ctx.sid] # << >>
    /\ rpc = "Dispatched"
    /\ status[math_orchestrator] = "running"
    /\ wrote = EmptyDict


-----------------------------------------------------------------------------
\* The coordinator tool

-----------------------------------------------------------------------------
\* Values left by earlier invocations

\* the key and the text before the value, of branch b
C21_Key(b) == IF b = "time" THEN "time_result" ELSE "calc_result"

C21_Before(b) == IF b = "time" THEN "The time is: " ELSE "The calculated result is: "

\* C21 as claimed: over every sequence of router invocations on a session,
\* a final Event that embeds a value other than the placeholder embeds the
\* value the branch wrote to its key during this invocation, never one that
\* an earlier invocation left in the session state
C21_FinalValueIsFresh ==
    (/\ root = Master
     /\ rpc = "Done"
     /\ dispatched # "none"
     /\ LastEvent.text # C8_PlaceholderText(dispatched))
        => /\ C21_Key(dispatched) \in DOMAIN wrote
           /\ LastEvent.text = C21_Before(dispatched) \o wrote[C21_Key(dispatched)]

====
